---- MODULE Spec2Model ----
(***************************************************************************)
(* OrchestratorService of src/src/services/monitoring/monitoringService.ts *)
(* (lines 563-1045) as a state machine.                                    *)
(*                                                                         *)
(* JavaScript runs one synchronous segment at a time, so every action is   *)
(* the code between two suspension points (an await of a collaborator, of  *)
(* Promise.allSettled or of memoryService.store, or a timer firing).       *)
(* The public methods createWorkflow, executeWorkflow, startAutonomousMode *)
(* and stopAutonomousMode may be called by any caller at any time, so      *)
(* several executeWorkflow calls can be in flight at once.                 *)
(*                                                                         *)
(* Task ids are the positions 1..n of the tasks in workflow.tasks (the     *)
(* creation order).  A task's type only selects the collaborator that is   *)
(* awaited; every collaborator either resolves or rejects, so the type is  *)
(* not kept.  Timestamps are kept as "set / not set", and so is the value  *)
(* a collaborator resolves with (result 1 = set, 0 = undefined): the       *)
(* orchestrator never looks into it.                                       *)
(*                                                                         *)
(* One workflow is followed.  Workflows own disjoint tasks and share only  *)
(* this.tasks, this.runningTasks and this.config, so a second workflow     *)
(* adds no behaviour to the first.  executeWorkflow on an id that is not   *)
(* registered throws before it changes anything.                           *)
(***************************************************************************)
EXTENDS Integers, FiniteSets, Sequences, TLC

\* Bounds of the model.
MaxTasks == 2
MaxDeps == 2
MaxCallers == 2
MaxStarts == 1
MaxRestarts == 2
MaxQueueRuns == 2
MaxConfigured == 1
MaxCeiling == 128
MaxQueueLength == 21
MaxRunning == 6

\* maxRetries of every task analyzeAndCreateTasks builds.
DefaultMaxRetries == 3

\* maxConcurrentTasks of the constructor's defaults.
DefaultMaxConcurrentTasks == 10

Callers == 1..MaxCallers

\* Owner of an execution dispatched by processTaskQueue (no call awaits it).
QueueOwner == 0

VARIABLES
  workflow,       \* the registered workflow: status, result, error
  wfTasks,        \* workflow.tasks: the sequence of Task records
  tasks,          \* this.tasks: ids of the tasks held in the task store
  runningTasks,   \* this.runningTasks
  maxConcurrentTasks, \* this.config.maxConcurrentTasks
  isAutonomousMode,   \* this.isAutonomousMode
  queueLoops,     \* pending setTimeout chains of processTaskQueue
  scalingTimers,  \* intervals set by startAutoScaling (never cleared)
  healingTimers,  \* intervals set by startSelfHealing (never cleared)
  pc,             \* position of each executeWorkflow call
  executedTasks,  \* executeWorkflow's local executedTasks, per call
  results,        \* executeWorkflow's local results, per call
  readyTasks,     \* executeWorkflow's local readyTasks (the batch), per call
  rejected,       \* tasks of the batch whose executeTask promise rejected
  inflight,       \* executeTask calls awaiting their collaborator: the task,
                  \* the call that awaits it, and a number that tells apart
                  \* the executions processTaskQueue started for one task
  elapsed,        \* running tasks whose startedAt is older than their timeout
  request,        \* the request createWorkflow was called with
  returned        \* how the last createWorkflow / executeWorkflow call ended

vars == <<workflow, wfTasks, tasks, runningTasks, maxConcurrentTasks,
          isAutonomousMode, queueLoops, scalingTimers, healingTimers, pc,
          executedTasks, results, readyTasks, rejected, inflight, elapsed,
          request, returned>>

callVars == <<pc, executedTasks, results, readyTasks, rejected>>
timerVars == <<queueLoops, scalingTimers, healingTimers>>
autoVars == <<tasks, runningTasks, maxConcurrentTasks, isAutonomousMode,
              timerVars>>

----------------------------------------------------------------------------
\* Data

NoWorkflow ==
  [status |-> "absent", hasResult |-> FALSE, result |-> <<>>,
   error |-> "none", errorTask |-> 0]

\* A Task as analyzeAndCreateTasks builds it.
NewTask ==
  [status |-> "pending", retries |-> 0, maxRetries |-> DefaultMaxRetries,
   result |-> 0, error |-> "none", startedAt |-> FALSE, dependencies |-> {}]

\* request.dependencies: a list of {dependent, dependency} id pairs.  Id 0
\* stands for an id that names none of the new tasks.
DepPairs(n) == (0..n) \X (0..n)
DepLists(n) == UNION {[1..k -> DepPairs(n)] : k \in 0..MaxDeps}

\* The request names an id that is none of the n new tasks.
Dangling(dependencies) ==
  \E i \in DOMAIN dependencies : dependencies[i][1] = 0 \/ dependencies[i][2] = 0

\* What the model keeps of a request.
NoRequest == [dangling |-> FALSE]

\* An edge is wired only when both ids name a task of the new set.
setupTaskDependencies(ts, dependencies) ==
  [t \in DOMAIN ts |->
     [ts[t] EXCEPT !.dependencies =
        {d \in DOMAIN ts :
           \E i \in DOMAIN dependencies : dependencies[i] = <<t, d>>}]]

\* One AI task when the request has a prompt, one MCP task per tool: n tasks.
analyzeAndCreateTasks(n, dependencies) ==
  setupTaskDependencies([t \in 1..n |-> NewTask], dependencies)

\* The filter of executeWorkflow's loop.
ReadyTasks(ts, executed) ==
  {t \in DOMAIN ts : t \notin executed /\ ts[t].dependencies \subseteq executed}

Min(S) == CHOOSE x \in S : \A y \in S : x <= y

----------------------------------------------------------------------------
\* executeTask

\* executeTask up to its await: the task is set running.
TaskStarted(t) == [t EXCEPT !.status = "running", !.startedAt = TRUE]

\* executeTask after the collaborator resolved with value v.
TaskFulfilled(t, v) == [t EXCEPT !.status = "completed", !.result = v]

\* A retry logic that lost its guard.
RetryOrFail_Unguarded(t) ==
  [t EXCEPT !.retries = t.retries + 1, !.status = "pending"]

\* The retry logic of executeTask's catch block.
RetryOrFail(t) ==
  IF t.retries < t.maxRetries
  THEN [t EXCEPT !.retries = t.retries + 1, !.status = "pending"]
  ELSE t

\* executeTask after the collaborator rejected.
TaskRejected(t) ==
  RetryOrFail([t EXCEPT !.status = "failed", !.error = "collaborator"])

----------------------------------------------------------------------------
\* Initial state: the state after the constructor.

\* The constructor with config.maxConcurrentTasks = ceiling.
InitWith(ceiling) ==
  /\ workflow = NoWorkflow
  /\ wfTasks = <<>>
  /\ tasks = {}
  /\ runningTasks = {}
  /\ maxConcurrentTasks = ceiling
  /\ isAutonomousMode = FALSE
  /\ queueLoops = 0
  /\ scalingTimers = 0
  /\ healingTimers = 0
  /\ pc = [c \in Callers |-> "idle"]
  /\ executedTasks = [c \in Callers |-> {}]
  /\ results = [c \in Callers |-> <<>>]
  /\ readyTasks = [c \in Callers |-> {}]
  /\ rejected = [c \in Callers |-> {}]
  /\ inflight = {}
  /\ elapsed = {}
  /\ request = NoRequest
  /\ returned = "none"

\* The constructor's default ceiling.
Init == InitWith(DefaultMaxConcurrentTasks)

----------------------------------------------------------------------------
\* How a call ends once memoryService.store has answered: with its own
\* outcome when store resolved, with store's error when store threw (the
\* await is in no try block in createWorkflow, and in `finally` in
\* executeWorkflow, whose throw replaces the return value or the error).
Outcome(own, storeOk) == IF storeOk THEN own ELSE "storeError"

\* createWorkflow: the tasks are built and the workflow is registered, then
\* memoryService.store is awaited.  The tasks are not put into this.tasks.
CreateWorkflowFrom(n, dependencies) ==
  /\ workflow.status = "absent"
  /\ wfTasks' = analyzeAndCreateTasks(n, dependencies)
  /\ request' = [dangling |-> Dangling(dependencies)]
  /\ workflow' = [NoWorkflow EXCEPT !.status = "pending"]
  /\ \E storeOk \in BOOLEAN : returned' = Outcome("workflow", storeOk)
  /\ UNCHANGED <<callVars, autoVars, inflight, elapsed>>

CreateWorkflow ==
  \E n \in 0..MaxTasks : \E dependencies \in DepLists(n) :
    CreateWorkflowFrom(n, dependencies)

\* The call leaves the try block with its own outcome and its locals are
\* dropped.  While memoryService.store is awaited in `finally` the call
\* changes nothing more, so the call ends in the same step.
Leave(c, own) ==
  /\ \E storeOk \in BOOLEAN : returned' = Outcome(own, storeOk)
  /\ pc' = [pc EXCEPT ![c] = "idle"]
  /\ executedTasks' = [executedTasks EXCEPT ![c] = {}]
  /\ results' = [results EXCEPT ![c] = <<>>]
  /\ readyTasks' = [readyTasks EXCEPT ![c] = {}]
  /\ rejected' = [rejected EXCEPT ![c] = {}]

\* The catch block of executeWorkflow.
WorkflowFailed(w, kind, t) ==
  [w EXCEPT !.status = "failed", !.error = kind, !.errorTask = t]

\* One evaluation of the while loop's head and body up to the await of
\* Promise.allSettled, for call c holding `executed` and `res`; w is the
\* workflow as the call sees it.
RunLoop(c, w, executed, res) ==
  IF Cardinality(executed) >= Len(wfTasks)
  THEN \* loop left: workflow completed
       /\ workflow' = [w EXCEPT !.status = "completed", !.hasResult = TRUE,
                                !.result = res]
       /\ Leave(c, "result")
       /\ UNCHANGED <<wfTasks, inflight, elapsed>>
  ELSE LET ready == ReadyTasks(wfTasks, executed) IN
       IF ready = {}
       THEN \* 'Circular dependency detected or no tasks ready to execute'
            /\ workflow' = WorkflowFailed(w, "graph", 0)
            /\ Leave(c, "error")
            /\ UNCHANGED <<wfTasks, inflight, elapsed>>
       ELSE \* readyTasks.map(task => this.executeTask(task))
            /\ workflow' = w
            /\ wfTasks' = [t \in DOMAIN wfTasks |->
                             IF t \in ready THEN TaskStarted(wfTasks[t])
                             ELSE wfTasks[t]]
            /\ inflight' = inflight \cup {[task |-> t, owner |-> c, seq |-> 0] : t \in ready}
            /\ elapsed' = elapsed \ ready
            /\ UNCHANGED returned
            /\ pc' = [pc EXCEPT ![c] = "awaiting"]
            /\ executedTasks' = [executedTasks EXCEPT ![c] = executed]
            /\ results' = [results EXCEPT ![c] = res]
            /\ readyTasks' = [readyTasks EXCEPT ![c] = ready]
            /\ rejected' = [rejected EXCEPT ![c] = {}]

\* executeWorkflow from its entry to its first await.
ExecuteWorkflow(c) ==
  /\ pc[c] = "idle"
  /\ workflow.status # "absent"
  /\ RunLoop(c, [workflow EXCEPT !.status = "running"], {}, <<>>)
  /\ UNCHANGED <<autoVars, request>>

\* The collaborator of one executeTask call answers: the rest of executeTask.
SettleTask(e, ok) ==
  /\ e \in inflight
  /\ inflight' = inflight \ {e}
  /\ elapsed' = elapsed \ {e.task}
  /\ wfTasks' = [wfTasks EXCEPT ![e.task] =
                   IF ok THEN TaskFulfilled(@, 1) ELSE TaskRejected(@)]
  /\ IF e.owner = QueueOwner
     THEN \* .finally(() => this.runningTasks.delete(task.id))
          /\ runningTasks' = runningTasks \ {e.task}
          /\ UNCHANGED rejected
     ELSE /\ rejected' = [rejected EXCEPT ![e.owner] =
                            IF ok THEN @ ELSE @ \cup {e.task}]
          /\ UNCHANGED runningTasks
  /\ UNCHANGED <<workflow, tasks, maxConcurrentTasks, isAutonomousMode,
                 timerVars, pc, executedTasks, results, readyTasks, request,
                 returned>>

Settle == \E e \in inflight : \E ok \in BOOLEAN : SettleTask(e, ok)

\* A loop that goes on as soon as one task of the batch has settled.
BatchSettled_NoBarrier(c) ==
  /\ pc[c] = "awaiting"
  /\ \E t \in readyTasks[c] :
       \A e \in inflight : e # [task |-> t, owner |-> c, seq |-> 0]
  /\ IF rejected[c] # {}
     THEN /\ workflow' = WorkflowFailed(workflow, "task", Min(rejected[c]))
          /\ Leave(c, "error")
          /\ UNCHANGED <<wfTasks, inflight, elapsed>>
     ELSE RunLoop(c, workflow, executedTasks[c] \cup readyTasks[c],
                  [t \in (DOMAIN results[c]) \cup readyTasks[c] |->
                     IF t \in readyTasks[c] THEN 1 ELSE results[c][t]])
  /\ UNCHANGED <<autoVars, request>>

\* Promise.allSettled resolved: the for loop over the batch, then the next
\* evaluation of the while loop.
BatchSettled(c) ==
  /\ pc[c] = "awaiting"
  /\ \A e \in inflight : e.owner # c
  /\ IF rejected[c] # {}
     THEN \* throw new Error(`Task ${task.id} failed: ...`) at the first one
          /\ workflow' = WorkflowFailed(workflow, "task", Min(rejected[c]))
          /\ Leave(c, "error")
          /\ UNCHANGED <<wfTasks, inflight, elapsed>>
     ELSE RunLoop(c, workflow, executedTasks[c] \cup readyTasks[c],
                  [t \in (DOMAIN results[c]) \cup readyTasks[c] |->
                     IF t \in readyTasks[c] THEN 1 ELSE results[c][t]])
  /\ UNCHANGED <<autoVars, request>>

----------------------------------------------------------------------------
\* The autonomous loop

\* this.taskQueue: declared empty and never written.
taskQueue == <<>>

\* Math.min(pendingTasks.length, availableSlots) iterations of the for loop.
Dispatched(pending) ==
  LET availableSlots == maxConcurrentTasks - Cardinality(runningTasks)
      k == IF Cardinality(pending) < availableSlots
           THEN Cardinality(pending) ELSE availableSlots
  IN IF k < 0 THEN 0 ELSE k

\* The numbers free for one more execution of task t by processTaskQueue.
FreeSeqs(t) ==
  {k \in 1..MaxQueueRuns :
     [task |-> t, owner |-> QueueOwner, seq |-> k] \notin inflight}

\* The body of processTaskQueue in autonomous mode: the first pending tasks of
\* the store, by priority, are dispatched.  Priorities are not kept: any
\* choice of that many pending tasks is a possible order.
ProcessPass ==
  LET pending == {t \in tasks : wfTasks[t].status = "pending"} IN
  \E S \in SUBSET pending :
    /\ Cardinality(S) = Dispatched(pending)
    /\ \A t \in S : FreeSeqs(t) # {}
    /\ runningTasks' = runningTasks \cup S
    /\ wfTasks' = [t \in DOMAIN wfTasks |->
                     IF t \in S THEN TaskStarted(wfTasks[t]) ELSE wfTasks[t]]
    /\ inflight' = inflight \cup
         {[task |-> t, owner |-> QueueOwner, seq |-> Min(FreeSeqs(t))] : t \in S}
    /\ elapsed' = elapsed \ S

\* startAutonomousMode with the constructor's defaults (auto-scaling and
\* self-healing enabled): the first pass of processTaskQueue runs at once.
StartAutonomousModeUpTo(starts) ==
  /\ healingTimers < starts
  /\ isAutonomousMode' = TRUE
  /\ ProcessPass
  /\ queueLoops' = queueLoops + 1
  /\ scalingTimers' = scalingTimers + 1
  /\ healingTimers' = healingTimers + 1
  /\ UNCHANGED <<workflow, tasks, maxConcurrentTasks, callVars, request,
                 returned>>

StartAutonomousMode == StartAutonomousModeUpTo(MaxStarts)

\* stopAutonomousMode: only the health-check interval is cleared.
StopAutonomousMode ==
  /\ isAutonomousMode' = FALSE
  /\ UNCHANGED <<workflow, wfTasks, tasks, runningTasks, maxConcurrentTasks,
                 timerVars, callVars, inflight, elapsed, request, returned>>

\* A setTimeout of processTaskQueue fires.
ProcessTaskQueue ==
  /\ queueLoops > 0
  /\ IF ~isAutonomousMode
     THEN \* return: this chain ends
          /\ queueLoops' = queueLoops - 1
          /\ UNCHANGED <<wfTasks, runningTasks, inflight, elapsed>>
     ELSE /\ ProcessPass
          /\ UNCHANGED queueLoops
  /\ UNCHANGED <<workflow, tasks, maxConcurrentTasks, isAutonomousMode,
                 scalingTimers, healingTimers, callVars, request, returned>>

\* An auto-scale logic that scales down without looking at the ceiling.
AutoScaled_NoFloor(max, queueLength, runningCount) ==
  IF queueLength > 20 /\ runningCount < max THEN max + 2
  ELSE IF queueLength < 5 /\ runningCount > 5 THEN max - 1
  ELSE max

\* The auto-scale logic, after getMetrics answered.
AutoScaled(max, queueLength, runningCount) ==
  IF queueLength > 20 /\ runningCount < max THEN max + 2
  ELSE IF queueLength < 5 /\ runningCount > 5 /\ max > 5 THEN max - 1
  ELSE max

\* An interval of startAutoScaling fires.
AutoScaling ==
  /\ scalingTimers > 0
  /\ maxConcurrentTasks' =
       AutoScaled(maxConcurrentTasks, Len(taskQueue), Cardinality(runningTasks))
  /\ UNCHANGED <<workflow, wfTasks, tasks, runningTasks, isAutonomousMode,
                 timerVars, callVars, inflight, elapsed, request, returned>>

\* A requeue that does not look at the retries left.
Requeued_AnyFailed(t) ==
  IF t.status = "failed"
  THEN [t EXCEPT !.status = "pending", !.retries = t.retries + 1]
  ELSE t

\* Self-healing, first loop: failed tasks with retries left are requeued.
Requeued(t) ==
  IF t.status = "failed" /\ t.retries < t.maxRetries
  THEN [t EXCEPT !.status = "pending", !.retries = t.retries + 1]
  ELSE t

\* Self-healing, second loop, for a task found stuck.
TimedOut(t) == [t EXCEPT !.status = "failed", !.error = "Task timed out"]

\* The first loop over the store.
Requeue(ts, store) ==
  [t \in DOMAIN ts |-> IF t \in store THEN Requeued(ts[t]) ELSE ts[t]]

\* The filter of the second loop: the tasks of the store that are running
\* with Date.now() - startedAt > (task.timeout || taskTimeout) * 1000.
StuckTasks(ts, store, late) ==
  {t \in store : ts[t].status = "running" /\ ts[t].startedAt /\ t \in late}

\* The tasks after one sweep.
Swept(ts, store, late) ==
  LET requeued == Requeue(ts, store)
      stuckTasks == StuckTasks(requeued, store, late)
  IN [t \in DOMAIN ts |->
        IF t \in stuckTasks THEN TimedOut(requeued[t]) ELSE requeued[t]]

\* this.runningTasks after one sweep.
SweptRunning(ts, store, late, running) ==
  running \ StuckTasks(Requeue(ts, store), store, late)

\* An interval of startSelfHealing fires.
SelfHealing ==
  /\ healingTimers > 0
  /\ wfTasks' = Swept(wfTasks, tasks, elapsed)
  /\ runningTasks' = SweptRunning(wfTasks, tasks, elapsed, runningTasks)
  /\ elapsed' = elapsed \ StuckTasks(Requeue(wfTasks, tasks), tasks, elapsed)
  /\ UNCHANGED <<workflow, tasks, maxConcurrentTasks, isAutonomousMode,
                 timerVars, callVars, inflight, request, returned>>

\* The clock passes startedAt + timeout of a running task.
TimeoutElapses ==
  \E t \in DOMAIN wfTasks :
    /\ wfTasks[t].status = "running"
    /\ wfTasks[t].startedAt
    /\ t \notin elapsed
    /\ elapsed' = elapsed \cup {t}
    /\ UNCHANGED <<workflow, wfTasks, autoVars, callVars, inflight, request,
                   returned>>

----------------------------------------------------------------------------
Next ==
  \/ CreateWorkflow
  \/ \E c \in Callers : ExecuteWorkflow(c)
  \/ Settle
  \/ \E c \in Callers : BatchSettled(c)
  \/ StartAutonomousMode
  \/ StopAutonomousMode
  \/ ProcessTaskQueue
  \/ AutoScaling
  \/ SelfHealing
  \/ TimeoutElapses

Spec == Init /\ [][Next]_vars

\* The same orchestrator with a caller that starts an executeWorkflow call
\* only once the previous one has ended.
ExecuteWorkflowAlone(c) ==
  /\ inflight = {}
  /\ \A d \in Callers : pc[d] = "idle"
  /\ ExecuteWorkflow(c)

SequentialNext ==
  \/ CreateWorkflow
  \/ \E c \in Callers : ExecuteWorkflowAlone(c)
  \/ Settle
  \/ \E c \in Callers : BatchSettled(c)
  \/ StartAutonomousMode
  \/ StopAutonomousMode
  \/ ProcessTaskQueue
  \/ AutoScaling
  \/ SelfHealing
  \/ TimeoutElapses

SequentialSpec == Init /\ [][SequentialNext]_vars

\* The sequential caller under the scheduling of the event loop: a timer
\* that is set fires, the clock advances, and a call whose awaited promise
\* has resolved is resumed.  Nothing makes a collaborator answer.
FairSpec ==
  /\ SequentialSpec
  /\ WF_vars(SelfHealing)
  /\ WF_vars(AutoScaling)
  /\ WF_vars(ProcessTaskQueue)
  /\ WF_vars(TimeoutElapses)
  /\ \A c \in Callers : WF_vars(BatchSettled(c))

\* Cancellation as the specification describes it: the workflow and every
\* task that has not started become cancelled; tasks already dispatched are
\* left to their executeTask.  The service has no such operation, and its
\* executeWorkflow is the code above.
CancelWorkflow ==
  /\ workflow.status = "running"
  /\ workflow' = [workflow EXCEPT !.status = "cancelled"]
  /\ wfTasks' = [t \in DOMAIN wfTasks |->
                   IF wfTasks[t].status = "pending"
                   THEN [wfTasks[t] EXCEPT !.status = "cancelled"]
                   ELSE wfTasks[t]]
  /\ UNCHANGED <<autoVars, callVars, inflight, elapsed, request, returned>>

CancelNext ==
  \/ CreateWorkflow
  \/ \E c \in Callers : ExecuteWorkflowAlone(c)
  \/ Settle
  \/ \E c \in Callers : BatchSettled(c)
  \/ StartAutonomousMode
  \/ StopAutonomousMode
  \/ ProcessTaskQueue
  \/ AutoScaling
  \/ SelfHealing
  \/ TimeoutElapses
  \/ CancelWorkflow

CancelSpec == Init /\ [][CancelNext]_vars

\* The sequential caller of an orchestrator constructed with a ceiling of
\* its own (the config passed to the constructor overrides the default).
ConfiguredInit == \E ceiling \in 1..MaxConfigured : InitWith(ceiling)

ConfiguredSpec == ConfiguredInit /\ [][SequentialNext]_vars

\* The sequential caller who may call startAutonomousMode again, after a
\* stopAutonomousMode or without one.
StartAutonomousModeAgain == StartAutonomousModeUpTo(MaxRestarts)

RestartNext ==
  \/ CreateWorkflow
  \/ \E c \in Callers : ExecuteWorkflowAlone(c)
  \/ Settle
  \/ \E c \in Callers : BatchSettled(c)
  \/ StartAutonomousModeAgain
  \/ StopAutonomousMode
  \/ ProcessTaskQueue
  \/ AutoScaling
  \/ SelfHealing
  \/ TimeoutElapses

RestartSpec == Init /\ [][RestartNext]_vars

\* The auto-scaling callback taken by itself, as a function of the queue
\* length and the running count it reads: any of them at every evaluation,
\* from a ceiling the constructor was given or the default one.
ScalingInit ==
  \E ceiling \in (1..MaxConfigured) \cup {DefaultMaxConcurrentTasks} :
    InitWith(ceiling)

AutoScaleEvaluation ==
  /\ maxConcurrentTasks <= MaxCeiling
  /\ \E queueLength \in 0..MaxQueueLength : \E runningCount \in 0..MaxRunning :
       maxConcurrentTasks' =
         AutoScaled(maxConcurrentTasks, queueLength, runningCount)
  /\ UNCHANGED <<workflow, wfTasks, tasks, runningTasks, isAutonomousMode,
                 timerVars, callVars, inflight, elapsed, request, returned>>

ScalingNext == AutoScaleEvaluation

ScalingSpec == ScalingInit /\ [][ScalingNext]_vars

\* The autonomous loop over a store that holds the tasks of a workflow, as
\* new as analyzeAndCreateTasks builds them.
LoopInit ==
  /\ workflow = [NoWorkflow EXCEPT !.status = "pending"]
  /\ \E n \in 1..MaxTasks : wfTasks = analyzeAndCreateTasks(n, <<>>)
  /\ tasks = DOMAIN wfTasks
  /\ runningTasks = {}
  /\ maxConcurrentTasks = DefaultMaxConcurrentTasks
  /\ isAutonomousMode = FALSE
  /\ queueLoops = 0
  /\ scalingTimers = 0
  /\ healingTimers = 0
  /\ pc = [c \in Callers |-> "idle"]
  /\ executedTasks = [c \in Callers |-> {}]
  /\ results = [c \in Callers |-> <<>>]
  /\ readyTasks = [c \in Callers |-> {}]
  /\ rejected = [c \in Callers |-> {}]
  /\ inflight = {}
  /\ elapsed = {}
  /\ request = NoRequest
  /\ returned = "workflow"

LoopNext ==
  \/ Settle
  \/ StartAutonomousMode
  \/ StopAutonomousMode
  \/ ProcessTaskQueue
  \/ AutoScaling
  \/ SelfHealing
  \/ TimeoutElapses

LoopSpec == LoopInit /\ [][LoopNext]_vars

\* The self-healing callback taken by itself, as a function of what
\* this.tasks holds: the store holds the tasks of a workflow, each in a state
\* executeTask leaves a task in, and only the sweep and the clock act.
TaskStates ==
  {[NewTask EXCEPT !.status = s, !.retries = r,
                   !.startedAt = (s # "pending" \/ r > 0),
                   !.error = IF s = "failed" \/ r > 0 THEN "collaborator"
                             ELSE "none",
                   !.result = IF s = "completed" THEN 1 ELSE 0] :
     s \in {"pending", "running", "completed", "failed"},
     r \in 0..DefaultMaxRetries}

SweepInit ==
  /\ workflow = [NoWorkflow EXCEPT !.status = "running"]
  /\ \E n \in 1..MaxTasks : wfTasks \in [1..n -> TaskStates]
  /\ tasks = DOMAIN wfTasks
  /\ runningTasks \in SUBSET {t \in tasks : wfTasks[t].status = "running"}
  /\ maxConcurrentTasks = DefaultMaxConcurrentTasks
  /\ isAutonomousMode = TRUE
  /\ queueLoops = 1
  /\ scalingTimers = 1
  /\ healingTimers = 1
  /\ pc = [c \in Callers |-> "idle"]
  /\ executedTasks = [c \in Callers |-> {}]
  /\ results = [c \in Callers |-> <<>>]
  /\ readyTasks = [c \in Callers |-> {}]
  /\ rejected = [c \in Callers |-> {}]
  /\ inflight = {}
  /\ elapsed = {}
  /\ request = NoRequest
  /\ returned = "workflow"

SweepNext == SelfHealing \/ TimeoutElapses

SweepSpec == SweepInit /\ [][SweepNext]_vars

\* The sequential caller with the request of a cycle next to a free task:
\* three tasks, task 1 depends on task 2 and task 2 on task 1.
CreateCyclicWorkflow == CreateWorkflowFrom(3, <<<<1, 2>>, <<2, 1>>>>)

CyclicNext ==
  \/ CreateCyclicWorkflow
  \/ \E c \in Callers : ExecuteWorkflowAlone(c)
  \/ Settle
  \/ \E c \in Callers : BatchSettled(c)
  \/ StartAutonomousMode
  \/ StopAutonomousMode
  \/ ProcessTaskQueue
  \/ AutoScaling
  \/ SelfHealing
  \/ TimeoutElapses

CyclicSpec == Init /\ [][CyclicNext]_vars

----------------------------------------------------------------------------
\* Vocabulary of the properties

Status(t) == wfTasks[t].status

\* Failed with no retries left.
Exhausted(t) ==
  wfTasks[t].status = "failed" /\ wfTasks[t].retries = wfTasks[t].maxRetries

\* No executeWorkflow call is active and no collaborator is being awaited.
Quiescent == inflight = {} /\ \A c \in Callers : pc[c] = "idle"

\* Call c ends in this step, after at least one batch.
CallEnds(c) == pc[c] = "awaiting" /\ pc'[c] = "idle"

\* The tasks that can ever become ready when every batch succeeds.
RECURSIVE Resolvable(_)
Resolvable(done) ==
  LET ready == ReadyTasks(wfTasks, done)
  IN IF ready = {} THEN done ELSE Resolvable(done \cup ready)

\* getTask(taskId): the task of the store, or undefined.
getTask(taskId) ==
  IF taskId \in tasks THEN wfTasks[taskId] ELSE [status |-> "undefined"]

\* listTasks(): the ids of the tasks of the store.
listTasks == {t \in tasks : TRUE}

\* The tasks t depends on, directly or through other tasks.
RECURSIVE Closure(_)
Closure(S) ==
  LET more == S \cup UNION {wfTasks[x].dependencies : x \in S}
  IN IF more = S THEN S ELSE Closure(more)

DependsOn(t) == Closure(wfTasks[t].dependencies)

\* The dependency graph has no cycle (a dangling id is never wired).
Acyclic == Resolvable({}) = DOMAIN wfTasks

----------------------------------------------------------------------------
\* C1: a task is set running from pending only while every task it depends
\* on has status completed.
C1_DependenciesCompletedAtStart ==
  [][\A t \in DOMAIN wfTasks :
       (Status(t) = "pending" /\ wfTasks'[t].status = "running")
         => \A d \in wfTasks[t].dependencies : Status(d) = "completed"]_vars

\* C2: when an executeWorkflow call on an acyclic workflow ends, every task
\* of the workflow is completed or failed.
C2_AllTerminalAtReturn ==
  [][\A c \in Callers :
       (Acyclic /\ CallEnds(c))
         => \A t \in DOMAIN wfTasks : wfTasks'[t].status \in {"completed", "failed"}]_vars

\* C3: an executeWorkflow call on a workflow with a dependency cycle ends by
\* throwing the graph error, the workflow failed.
C3_CycleEndsInGraphError ==
  [][\A c \in Callers :
       (~Acyclic /\ CallEnds(c))
         => workflow'.status = "failed" /\ workflow'.error = "graph"]_vars

\* C4: when a task of the batch a call ends on has failed with no retries
\* left, the workflow is failed with an error naming a task that failed with
\* no retries left; and while the workflow is failed with such a task, no
\* task that never started is started.
C4_FailFastOnExhaustedTask ==
  [][/\ \A c \in Callers :
          (CallEnds(c) /\ \E t \in rejected[c] : Exhausted(t))
            => /\ workflow'.status = "failed"
               /\ workflow'.error = "task"
               /\ Exhausted(workflow'.errorTask)
     /\ (workflow.status = "failed" /\ \E y \in DOMAIN wfTasks : Exhausted(y))
          => \A x \in DOMAIN wfTasks :
               ~wfTasks[x].startedAt => ~wfTasks'[x].startedAt]_vars

\* C5: no task's retries exceeds its maxRetries.
C5_RetriesBounded ==
  \A t \in DOMAIN wfTasks : wfTasks[t].retries <= wfTasks[t].maxRetries

\* C5 witness: a task failed once more after its last retry was used, with a
\* self-healing interval set.
C5_Witness == healingTimers > 0 /\ \E t \in DOMAIN wfTasks : Exhausted(t)

\* C6: a task that is failed with no retries left stays failed.
C6_ExhaustedStaysFailed ==
  [][\A t \in DOMAIN wfTasks :
       Exhausted(t) => wfTasks'[t].status = "failed"]_vars

\* C7: while the workflow is completed every task is completed and the
\* result map has one entry per task.
C7_CompletedWorkflowAllCompleted ==
  workflow.status = "completed"
    => /\ \A t \in DOMAIN wfTasks : Status(t) = "completed" /\ wfTasks[t].result = 1
       /\ workflow.hasResult
       /\ DOMAIN workflow.result = DOMAIN wfTasks

\* C8: a finished workflow carries a result map covering all tasks or an
\* error, and not both.
C8_ResultOrErrorNotBoth ==
  workflow.status \in {"completed", "failed"}
    => /\ workflow.hasResult # (workflow.error # "none")
       /\ workflow.hasResult => DOMAIN workflow.result = DOMAIN wfTasks

\* C9: the workflow is failed by a task's failure only when a task has failed
\* with no retries left.
C9_WorkflowFailsOnlyWhenExhausted ==
  (workflow.status = "failed" /\ workflow.error = "task")
    => \E t \in DOMAIN wfTasks : Exhausted(t)

\* C10: a task that failed k <= maxRetries times is attempted again until it
\* succeeds: once the orchestrator is at rest it is completed with
\* retries = k, unless it failed with no retries left.
C10_FailedTaskRetriedToCompletion ==
  Quiescent
    => \A t \in DOMAIN wfTasks :
         (wfTasks[t].retries >= 1 /\ ~Exhausted(t)) => Status(t) = "completed"

\* C11: in a workflow with a dependency cycle no task is set running.
C11_NoTaskRunsInCyclicWorkflow ==
  [][~Acyclic
       => \A t \in DOMAIN wfTasks :
            wfTasks'[t].status = "running" => Status(t) = "running"]_vars

\* C12: a task that is running for longer than its timeout is, by a later
\* self-healing sweep at the latest, no longer running and out of the
\* running set; when it is still running at the sweep it is failed with the
\* timeout error.
C12_StuckTaskFailedBySweep ==
  \A t \in 1..MaxTasks :
    (t \in DOMAIN wfTasks /\ t \in elapsed /\ healingTimers > 0)
      ~> (t \in DOMAIN wfTasks /\ Status(t) # "running" /\ t \notin runningTasks)

C14_LegalStatusChanges ==
  [][\A t \in DOMAIN wfTasks :
       LET a == wfTasks[t]
           b == wfTasks'[t]
       IN \/ b.status = a.status
          \/ a.status = "pending" /\ b.status = "running"
          \/ a.status = "running" /\ b.status \in {"completed", "failed"}
          \/ a.status = "failed" /\ b.status = "pending"
               /\ a.retries < a.maxRetries
          \/ a.status = "running" /\ b.status = "pending"
               /\ a.retries < a.maxRetries]_vars

\* C15: whatever memoryService.store does, createWorkflow returns the
\* workflow it registered, and an executeWorkflow call that ends returns the
\* result map when it completed the workflow and throws the task's or the
\* graph's error when it failed it.
C15_StoreFailureChangesNoOutcome ==
  [][/\ (workflow.status = "absent" /\ workflow'.status # "absent")
          => returned' = "workflow"
     /\ ((\E c \in Callers : CallEnds(c))
           \/ (workflow' # workflow
                 /\ workflow'.status \in {"completed", "failed"}))
          => returned' = IF workflow'.status = "completed" THEN "result"
                         ELSE "error"]_vars

\* C16: no workflow is registered and no task exists for a request whose
\* dependency list names an id that is none of the new tasks.
C16_DanglingDependencyRejected ==
  request.dangling => (workflow.status = "absent" /\ wfTasks = <<>>)

\* C17: once a workflow is cancelled it stays cancelled, its cancelled tasks
\* stay cancelled, and no further task is dispatched.
C17_CancelStopsScheduling ==
  [][workflow.status = "cancelled"
       => /\ workflow'.status = "cancelled"
          /\ inflight' \subseteq inflight
          /\ \A t \in DOMAIN wfTasks :
               Status(t) = "cancelled" => wfTasks'[t].status = "cancelled"]_vars

\* C18: every task of a registered workflow is in the task store: getTask
\* returns it and listTasks includes it.
C18_TasksHeldInStore ==
  workflow.status # "absent"
    => \A t \in DOMAIN wfTasks : getTask(t) = wfTasks[t] /\ t \in listTasks

\* C19: when the workflow has finished and the orchestrator is at rest, every
\* task that depends, directly or not, on a task that failed with no retries
\* left is failed.
C19_FailurePropagates ==
  (Quiescent /\ workflow.status \in {"completed", "failed"})
    => \A t \in DOMAIN wfTasks :
         (\E d \in DependsOn(t) : Exhausted(d)) => Status(t) = "failed"

\* C20: a running task eventually leaves running, and an executeWorkflow
\* call that awaits a batch eventually ends, also when a collaborator never
\* answers.
C20_NoTaskRunsForever ==
  /\ \A t \in 1..MaxTasks :
       (t \in DOMAIN wfTasks /\ Status(t) = "running")
         ~> (t \in DOMAIN wfTasks /\ Status(t) # "running")
  /\ \A c \in Callers : (pc[c] = "awaiting") ~> (pc[c] = "idle")

\* C21: a call leaves the await of a batch only when every execution of the
\* batch has settled, and when it ends there on a failure every task of the
\* batch that was fulfilled is completed.
C21_BatchIsBarrier ==
  [][\A c \in Callers :
       (pc[c] = "awaiting" /\ <<pc[c], readyTasks[c]>>' # <<pc[c], readyTasks[c]>>)
         => /\ \A e \in inflight : e.owner # c
            /\ \A t \in readyTasks[c] \ rejected[c] :
                 wfTasks'[t].status = "completed"]_vars

\* C21 witness: the workflow failed on a task of a batch whose other task
\* was fulfilled and is completed.
C21_Witness ==
  /\ Quiescent
  /\ workflow.status = "failed" /\ workflow.error = "task"
  /\ \E t \in DOMAIN wfTasks :
       /\ t # workflow.errorTask
       /\ Status(t) = "completed"
       /\ wfTasks[t].dependencies = {}
       /\ wfTasks[workflow.errorTask].dependencies = {}

C23_InflightWithinCeiling ==
  Cardinality(inflight) <= maxConcurrentTasks

\* C24: an evaluation lowers maxConcurrentTasks by at most 1, only from a
\* ceiling above 5, and never takes a ceiling of 5 or more below 5.
C24_ScaleDownByOneAboveFloor ==
  [][/\ maxConcurrentTasks' >= maxConcurrentTasks - 1
     /\ maxConcurrentTasks' < maxConcurrentTasks => maxConcurrentTasks > 5
     /\ maxConcurrentTasks >= 5 => maxConcurrentTasks' >= 5]_vars

\* C24 witness: a ceiling of 6, which the evaluations reach from the initial
\* ceilings only through a decrease.
C24_Witness ==
  /\ maxConcurrentTasks = 6
  /\ AutoScaled(maxConcurrentTasks, 0, MaxRunning) = 5
  /\ AutoScaled(5, 0, MaxRunning) = 5

C26_RequeueFrame ==
  \A t \in tasks :
    LET before == wfTasks[t]
        after == Requeue(wfTasks, tasks)[t]
    IN IF before.status = "failed" /\ before.retries < before.maxRetries
       THEN after.status = "pending"
       ELSE after = before

\* C26 witness: a store with a failed task that has retries left, which the
\* requeue step sets to pending, and a failed task without, which it leaves.
C26_Witness ==
  /\ \E t \in tasks :
       /\ Status(t) = "failed" /\ wfTasks[t].retries < wfTasks[t].maxRetries
       /\ Requeue(wfTasks, tasks)[t].status = "pending"
  /\ \E t \in tasks : Exhausted(t) /\ Requeue(wfTasks, tasks)[t] = wfTasks[t]

\* C27: no task has both a result and an error.
C27_TaskResultOrError ==
  \A t \in DOMAIN wfTasks : ~(wfTasks[t].result = 1 /\ wfTasks[t].error # "none")

\* C28: no task has two executions in flight.
C28_OneExecutionPerTask ==
  \A e1, e2 \in inflight : e1.task = e2.task => e1 = e2

\* C29: at most one processTaskQueue chain, one auto-scaling interval and one
\* self-healing interval are set; and while autonomous mode stays off, no
\* step other than a call's or an execution's changes a task, the running
\* set or the ceiling, and processTaskQueue dispatches nothing.
C29_StoppedSweepsOneInstance ==
  /\ [](queueLoops <= 1 /\ scalingTimers <= 1 /\ healingTimers <= 1)
  /\ [][(~isAutonomousMode /\ ~isAutonomousMode')
          => /\ \A e \in inflight' \ inflight : e.owner # QueueOwner
             /\ (inflight' = inflight /\ pc' = pc /\ workflow' = workflow)
                  => UNCHANGED <<wfTasks, runningTasks, maxConcurrentTasks>>]_vars

\* C30: a workflow that is completed or failed keeps its status, result and
\* error, and its tasks stay as they are.
C30_FinishedWorkflowStays ==
  [][workflow.status \in {"completed", "failed"}
       => (workflow' = workflow /\ wfTasks' = wfTasks)]_vars

====
